---- MODULE Spec2Model ----
(***************************************************************************)
(* Model of lib/mongodb/bson/timestamp.js: a 64-bit two's-complement       *)
(* integer kept as two signed 32-bit words, with its arithmetic done in    *)
(* JavaScript numbers (IEEE doubles) and 32-bit bit operations.            *)
(*                                                                         *)
(* A signed 32-bit word is an integer of the model.  A JavaScript number   *)
(* that may leave the 32-bit range (the argument of fromNumber, the result *)
(* of toNumber, Math.pow(radix, 8)) is an exact natural number written as  *)
(* a little-endian sequence of base-2^15 digits; rounding to the 53-bit    *)
(* significand of a double is applied where the code's arithmetic rounds.  *)
(*                                                                         *)
(* Spec is the module as its callers see it: the instances it keeps and    *)
(* the calls made on them.  SpecArith applies the arithmetic methods, and  *)
(* SpecString the conversions to and from strings, to operands drawn in    *)
(* the initial state.  SpecDiv runs one call of div step by step, an       *)
(* iteration of its loop at a time.                                        *)
(***************************************************************************)
EXTENDS Integers, Sequences, FiniteSets, TLC

VARIABLES heap, cache, pc, inp, out

vars == <<heap, cache, pc, inp, out>>

\* A JavaScript statement evaluates its expression once, where it stands, and
\* the variable it assigns holds the value from then on.  With(v, F) is F
\* applied to the value of v, taken before F is entered.
With(v, F(_)) == CASE v = v -> F(v)

(***************************************************************************)
(* Exact natural numbers: little-endian digit sequences, no leading zero   *)
(* digit, <<>> for zero.  The operations are written without recursion     *)
(* over the digits where a closed form exists.                             *)
(***************************************************************************)
DigitBits == 15
DigitBase == 32768

MaxOf(S) == CHOOSE m \in S : \A x \in S : x <= m

NNorm(s) ==
  IF s = <<>> \/ s[Len(s)] # 0 THEN s
  ELSE SubSeq(s, 1, MaxOf({0} \cup {i \in 1..Len(s) : s[i] # 0}))

\* n is a natural number below 2^31
NFromInt(n) ==
  NNorm(<<n % DigitBase, (n \div DigitBase) % DigitBase, n \div (DigitBase * DigitBase)>>)

NDigit(a, i) == IF i <= Len(a) THEN a[i] ELSE 0

\* a is below 2^31
NToInt(a) ==
  NDigit(a, 1) + DigitBase * NDigit(a, 2) + (DigitBase * DigitBase) * NDigit(a, 3)

\* the comparison of a and b of equal length, decided at digit m, the highest
\* digit where they differ, 0 when they do not
NCmpAt(a, b, m) == IF m = 0 THEN 0 ELSE IF a[m] < b[m] THEN -1 ELSE 1

NCmp(a, b) ==
  IF Len(a) < Len(b) THEN -1
  ELSE IF Len(a) > Len(b) THEN 1
  ELSE NCmpAt(a, b, MaxOf({0} \cup {i \in 1..Len(a) : a[i] # b[i]}))

NLess(a, b) == NCmp(a, b) < 0
NLeq(a, b) == NCmp(a, b) <= 0

\* the carry into digit i is 1 when a lower digit j overflows and every digit
\* between j and i is full
NAdd(a, b) ==
  IF a = <<>> THEN b
  ELSE IF b = <<>> THEN a
  ELSE LET n == IF Len(a) < Len(b) THEN Len(b) ELSE Len(a)
           s(i) == NDigit(a, i) + NDigit(b, i)
           carry(i) == IF \E j \in 1..(i - 1) :
                            /\ s(j) >= DigitBase
                            /\ \A k \in (j + 1)..(i - 1) : s(k) = DigitBase - 1
                       THEN 1 ELSE 0
       IN  NNorm([i \in 1..(n + 1) |-> (s(i) + carry(i)) % DigitBase])

\* a - b for a >= b
NSub(a, b) ==
  IF a = <<>> \/ b = <<>> THEN a
  ELSE LET borrow(i) == IF \E j \in 1..(i - 1) :
                             /\ a[j] < NDigit(b, j)
                             /\ \A k \in (j + 1)..(i - 1) : a[k] = NDigit(b, k)
                        THEN 1 ELSE 0
       IN  NNorm([i \in 1..Len(a) |-> (a[i] - NDigit(b, i) - borrow(i)) % DigitBase])

\* a * DigitBase^k
NShiftDigits(a, k) ==
  IF a = <<>> \/ k = 0 THEN a
  ELSE [i \in 1..(k + Len(a)) |-> IF i <= k THEN 0 ELSE a[i - k]]

\* a * d for d <= DigitBase: the low halves of the digit products plus their
\* high halves one place up
NMulDigit(a, d) ==
  IF a = <<>> \/ d = 0 THEN <<>>
  ELSE NAdd([i \in 1..Len(a) |-> (a[i] * d) % DigitBase],
            [i \in 1..(Len(a) + 1) |-> IF i = 1 THEN 0 ELSE (a[i - 1] * d) \div DigitBase])

RECURSIVE NMulFrom(_, _, _)
NMulFrom(a, b, j) ==
  IF j > Len(b) THEN <<>>
  ELSE NAdd(NShiftDigits(NMulDigit(a, b[j]), j - 1), NMulFrom(a, b, j + 1))

NMul(a, b) == IF Len(a) < Len(b) THEN NMulFrom(b, a, 1) ELSE NMulFrom(a, b, 1)

\* 2^k as a model integer, k <= 30
Pow2(k) == 2 ^ k

\* a * 2^k
NShl(a, k) ==
  NShiftDigits(NMulDigit(a, Pow2(k % DigitBits)), k \div DigitBits)

\* floor(a / 2^k)
NShr(a, k) ==
  LET q == k \div DigitBits
      r == k % DigitBits
  IN  IF q >= Len(a) THEN <<>>
      ELSE NNorm([i \in 1..(Len(a) - q) |->
                    (a[q + i] \div Pow2(r))
                      + (NDigit(a, q + i + 1) % Pow2(r)) * Pow2(DigitBits - r)])

\* a mod 2^k
NLowBits(a, k) ==
  LET q == k \div DigitBits
      r == k % DigitBits
  IN  IF q >= Len(a) THEN a
      ELSE NNorm(SubSeq(a, 1, q) \o <<a[q + 1] % Pow2(r)>>)

\* the number of bits of a digit
BitLenInt(n) ==
  IF n = 0 THEN 0
  ELSE CHOOSE k \in 1..DigitBits : Pow2(k - 1) <= n /\ n < Pow2(k)

\* the number of bits of a: 0 for zero, k + 1 for 2^k <= a < 2^(k+1)
NBitLen(a) ==
  IF a = <<>> THEN 0 ELSE DigitBits * (Len(a) - 1) + BitLenInt(a[Len(a)])

NIsOdd(a) == a # <<>> /\ a[1] % 2 = 1

\* floor(r / b) for r < b * DigitBase and the top digit of b at least
\* DigitBase / 2: the estimate from the top digits of r is at most 2 too large
NQuotDigit(r, b) ==
  LET n == Len(b)
      e == (NDigit(r, n + 1) * DigitBase + NDigit(r, n)) \div b[n]
      q == IF e >= DigitBase THEN DigitBase - 1 ELSE e
  IN  IF NLeq(NMulDigit(b, q), r) THEN q
      ELSE IF NLeq(NMulDigit(b, q - 1), r) THEN q - 1
      ELSE q - 2

\* long division from digit i of a down to digit 1; qr is <<quotient, remainder>> so far
RECURSIVE NDivModFrom(_, _, _, _)
NDivModFrom(a, b, i, qr) ==
  IF i = 0 \/ qr = <<>> THEN qr
  ELSE With(NNorm(<<a[i]>> \o qr[2]), LAMBDA r :
       With(NQuotDigit(r, b), LAMBDA d :
         NDivModFrom(a, b, i - 1,
                     <<NNorm(<<d>> \o qr[1]), NSub(r, NMulDigit(b, d))>>)))

\* NDivMod with both numbers scaled by 2^s, which makes the top digit of the
\* divisor at least DigitBase / 2
NDivModScaled(a, b, s) ==
  With(NDivModFrom(a, b, Len(a), <<(<<>>), (<<>>)>>), LAMBDA qr :
    <<qr[1], NShr(qr[2], s)>>)

\* <<floor(a / b), a mod b>> for b > 0
NDivMod(a, b) ==
  With(DigitBits - BitLenInt(b[Len(b)]), LAMBDA s :
    NDivModScaled(NShl(a, s), NShl(b, s), s))

\* floor(a / d) for a digit d > 0
NDivDigit(a, d) == NDivMod(a, <<d>>)[1]

(***************************************************************************)
(* JavaScript numbers.  An integer-valued number is [neg, mag] with mag an *)
(* exact natural number; NaN and the infinities are [nan] and [inf].       *)
(***************************************************************************)
MinInt32 == -2147483647 - 1
MaxInt32 == 2147483647

NumNat(a) == [k |-> "int", neg |-> FALSE, mag |-> a]
NumNaN == [k |-> "nan", neg |-> FALSE, mag |-> <<>>]
NumInf(n) == [k |-> "inf", neg |-> n, mag |-> <<>>]

\* the number with the value of the 32-bit word x
NumOf(x) ==
  IF x >= 0
  THEN [k |-> "int", neg |-> FALSE, mag |-> NFromInt(x)]
  ELSE [k |-> "int", neg |-> TRUE, mag |-> NAdd(NFromInt(-(x + 1)), <<1>>)]

NumNeg(n) == [n EXCEPT !.neg = (n.mag # <<>> /\ ~n.neg)]

\* ToUint32 of an integer-valued number: its value modulo 2^32
NumToUint32(n) ==
  With(NLowBits(n.mag, 32), LAMBDA m :
    IF n.neg /\ m # <<>> THEN NSub(NShl(<<1>>, 32), m) ELSE m)

\* the signed 32-bit word with the bit pattern of u, 0 <= u < 2^32
WordOfUint32(u) ==
  LET d3 == NDigit(u, 3)
  IN  (IF d3 >= 2 THEN d3 - 4 ELSE d3) * (DigitBase * DigitBase)
        + NDigit(u, 2) * DigitBase + NDigit(u, 1)

\* ToInt32, the conversion behind "x | 0": NaN and the infinities give 0
ToInt32(n) == IF n.k = "int" THEN WordOfUint32(NumToUint32(n)) ELSE 0

\* the unsigned value of the 32-bit word x
Uint32Of(x) ==
  IF x >= 0 THEN NFromInt(x)
  ELSE NSub(NShl(<<1>>, 32), NumOf(x).mag)

(***************************************************************************)
(* 32-bit bit operations on signed words.                                  *)
(***************************************************************************)
TWO_PWR_16_DBL_ == 65536
TWO_PWR_24_DBL_ == 16777216
TWO_PWR_32_DBL_ == NShl(<<1>>, 32)
TWO_PWR_31_DBL_ == NShl(<<1>>, 31)
TWO_PWR_48_DBL_ == NShl(<<1>>, 48)
TWO_PWR_64_DBL_ == NShl(<<1>>, 64)
TWO_PWR_63_DBL_ == NShl(<<1>>, 63)

\* x & 0xFFFF
Low16(x) == x % TWO_PWR_16_DBL_

\* x >>> 16
High16(x) == (x \div TWO_PWR_16_DBL_) % TWO_PWR_16_DBL_

\* (hi << 16) | lo for 16-bit hi and lo
Join16(hi, lo) ==
  (IF hi >= 32768 THEN hi - TWO_PWR_16_DBL_ ELSE hi) * TWO_PWR_16_DBL_ + lo

\* ~x
BitNot(x) == IF x >= 0 THEN (-x) - 1 ELSE -(x + 1)

\* the bitwise combination of the naturals a and b below 2^k, f on single bits
RECURSIVE BitsOp(_, _, _, _)
BitsOp(f, a, b, k) ==
  IF k = 0 THEN 0
  ELSE f[a % 2][b % 2] + 2 * BitsOp(f, a \div 2, b \div 2, k - 1)

AndBit == [p \in 0..1 |-> [q \in 0..1 |-> IF p = 1 /\ q = 1 THEN 1 ELSE 0]]
OrBit == [p \in 0..1 |-> [q \in 0..1 |-> IF p = 1 \/ q = 1 THEN 1 ELSE 0]]
XorBit == [p \in 0..1 |-> [q \in 0..1 |-> IF p # q THEN 1 ELSE 0]]

WordOp(f, x, y) ==
  Join16(BitsOp(f, High16(x), High16(y), 16), BitsOp(f, Low16(x), Low16(y), 16))

\* x & y, x | y, x ^ y
BitAnd(x, y) == WordOp(AndBit, x, y)
BitOr(x, y) == WordOp(OrBit, x, y)
BitXor(x, y) == WordOp(XorBit, x, y)

\* the low m bits of the word x as a natural number, 0 <= m <= 31
LowBitsOf(x, m) ==
  IF m = 31
  THEN IF x >= 0 THEN x ELSE (x + Pow2(30)) + Pow2(30)
  ELSE x % Pow2(m)

\* x << n: the shift count is taken modulo 32
Shl(x, n) ==
  LET c == n % 32
      u == LowBitsOf(x, 32 - c)
  IN  IF c = 0 THEN x
      ELSE IF c = 31 THEN (IF u = 1 THEN MinInt32 ELSE 0)
      ELSE IF u >= Pow2(31 - c)
           THEN ((u - Pow2(31 - c)) * Pow2(c) - Pow2(30)) - Pow2(30)
           ELSE u * Pow2(c)

\* x >> n (sign-propagating)
Sar(x, n) ==
  LET c == n % 32
  IN  IF c = 31 THEN (IF x < 0 THEN -1 ELSE 0) ELSE x \div Pow2(c)

\* x >>> n (zero-filling) for a shift count that is not a multiple of 32
Shr(x, n) ==
  LET c == n % 32
  IN  IF c = 31 THEN (IF x < 0 THEN 1 ELSE 0)
      ELSE LowBitsOf(x \div Pow2(c), 32 - c)

(***************************************************************************)
(* Rounding of a natural number to the 53-bit significand of a double      *)
(* (round to nearest, ties to even).                                       *)
(***************************************************************************)
SignificandBits == 53

\* a rounded to a multiple of 2^s, s > 0
NRoundTo(a, s) ==
  With(NShr(a, s), LAMBDA m :
  With(NCmp(NLowBits(a, s), NShl(<<1>>, s - 1)), LAMBDA c :
    NShl(IF c > 0 \/ (c = 0 /\ NIsOdd(m)) THEN NAdd(m, <<1>>) ELSE m, s)))

NRound53(a) ==
  IF NBitLen(a) <= SignificandBits THEN a
  ELSE NRoundTo(a, NBitLen(a) - SignificandBits)

(***************************************************************************)
(* The value type.  A value is [low_, high_, id]: the two signed words the *)
(* constructor stores, and the identity of the instance: the index of the  *)
(* object in the heap, 0 for an object the running call has just built.    *)
(***************************************************************************)

\* JavaScript evaluates the arguments of a call before the body of the
\* callee runs.  An operator that starts with Evaluated(v) has v evaluated
\* at that point, not where its body first needs it.
Evaluated(v) == v = v

\* a constructor that sets both fields from its first argument
TimestampLowTwice(low, high) ==
  [low_ |-> ToInt32(low), high_ |-> ToInt32(low), id |-> 0]

\* new exports.Timestamp(low, high): low and high are numbers
Timestamp(low, high) ==
  [low_ |-> ToInt32(low), high_ |-> ToInt32(high), id |-> 0]

fromBits(lowBits, highBits) == Timestamp(lowBits, highBits)

\* the instances built while the module loads, in the order the heap holds them
ZERO == [low_ |-> 0, high_ |-> 0, id |-> 1]
ONE == [low_ |-> 1, high_ |-> 0, id |-> 2]
NEG_ONE == [low_ |-> -1, high_ |-> -1, id |-> 3]
MAX_VALUE == [low_ |-> -1, high_ |-> MaxInt32, id |-> 4]
MIN_VALUE == [low_ |-> 0, high_ |-> MinInt32, id |-> 5]
TWO_PWR_24_ == [low_ |-> TWO_PWR_24_DBL_, high_ |-> 0, id |-> 6]

toInt(x) == x.low_
getHighBits(x) == x.high_
getLowBits(x) == x.low_

\* a natural number
getLowBitsUnsigned(x) == Uint32Of(x.low_)

isZero(x) == x.high_ = 0 /\ x.low_ = 0
isNegative(x) == x.high_ < 0
isOdd(x) == x.low_ % 2 = 1
equals(x, other) == x.high_ = other.high_ /\ x.low_ = other.low_
notEquals(x, other) == x.high_ # other.high_ \/ x.low_ # other.low_

\* high_ * 2^32 + getLowBitsUnsigned(), rounded once, as the double sum is
toNumber(x) ==
  CASE Evaluated(x) ->
       IF x.high_ < 0
       THEN [k |-> "int", neg |-> TRUE,
             mag |-> NRound53(NSub(NShl(NumOf(x.high_).mag, 32),
                                   getLowBitsUnsigned(x)))]
       ELSE [k |-> "int", neg |-> FALSE,
             mag |-> NRound53(NAdd(NShl(NumOf(x.high_).mag, 32),
                                   getLowBitsUnsigned(x)))]

not(x) ==
  CASE Evaluated(x) ->
       fromBits(NumOf(BitNot(x.low_)), NumOf(BitNot(x.high_)))

\* an addition that lets no carry pass from the low word to the high word
addCarryLost(x, other) ==
  CASE Evaluated(x) /\ Evaluated(other) ->
       LET s00 == Low16(x.low_) + Low16(other.low_)
           s16 == (s00 \div TWO_PWR_16_DBL_) + High16(x.low_) + High16(other.low_)
           s32 == Low16(x.high_) + Low16(other.high_)
           s48 == (s32 \div TWO_PWR_16_DBL_) + High16(x.high_) + High16(other.high_)
       IN  fromBits(NumOf(Join16(s16 % TWO_PWR_16_DBL_, s00 % TWO_PWR_16_DBL_)),
                    NumOf(Join16(s48 % TWO_PWR_16_DBL_, s32 % TWO_PWR_16_DBL_)))

add(x, other) ==
  CASE Evaluated(x) /\ Evaluated(other) ->
       LET a48 == High16(x.high_)
           a32 == Low16(x.high_)
           a16 == High16(x.low_)
           a00 == Low16(x.low_)
           b48 == High16(other.high_)
           b32 == Low16(other.high_)
           b16 == High16(other.low_)
           b00 == Low16(other.low_)
           s00 == a00 + b00
           c00 == s00 % TWO_PWR_16_DBL_
           s16 == (s00 \div TWO_PWR_16_DBL_) + a16 + b16
           c16 == s16 % TWO_PWR_16_DBL_
           s32 == (s16 \div TWO_PWR_16_DBL_) + a32 + b32
           c32 == s32 % TWO_PWR_16_DBL_
           s48 == (s32 \div TWO_PWR_16_DBL_) + a48 + b48
           c48 == s48 % TWO_PWR_16_DBL_
       IN  fromBits(NumOf(Join16(c16, c00)), NumOf(Join16(c48, c32)))

\* a negation that forgets the "+ 1" of the two's complement
negateOnesComplement(x) ==
  IF equals(x, MIN_VALUE) THEN MIN_VALUE ELSE not(x)

negate(x) ==
  IF equals(x, MIN_VALUE) THEN MIN_VALUE ELSE add(not(x), ONE)

subtract(x, other) == add(x, negate(other))

compare(x, other) ==
  IF equals(x, other) THEN 0
  ELSE IF isNegative(x) /\ ~isNegative(other) THEN -1
  ELSE IF ~isNegative(x) /\ isNegative(other) THEN 1
  ELSE IF isNegative(subtract(x, other)) THEN -1
  ELSE 1

lessThan(x, other) == compare(x, other) < 0
lessThanOrEqual(x, other) == compare(x, other) <= 0
greaterThan(x, other) == compare(x, other) > 0
greaterThanOrEqual(x, other) == compare(x, other) >= 0

RECURSIVE fromNumber(_)
fromNumber(value) ==
  IF value.k # "int" THEN ZERO
  ELSE IF value.neg /\ NLeq(TWO_PWR_63_DBL_, value.mag) THEN MIN_VALUE
  ELSE IF ~value.neg /\ NLeq(TWO_PWR_63_DBL_, NRound53(NAdd(value.mag, <<1>>)))
  THEN MAX_VALUE
  ELSE IF value.neg THEN negate(fromNumber(NumNeg(value)))
  ELSE Timestamp(NumNat(NLowBits(value.mag, 32)), NumNat(NShr(value.mag, 32)))

and(x, other) ==
  fromBits(NumOf(BitAnd(x.low_, other.low_)), NumOf(BitAnd(x.high_, other.high_)))

or(x, other) ==
  fromBits(NumOf(BitOr(x.low_, other.low_)), NumOf(BitOr(x.high_, other.high_)))

xor(x, other) ==
  fromBits(NumOf(BitXor(x.low_, other.low_)), NumOf(BitXor(x.high_, other.high_)))

\* a shift that stores the shifted words in its receiver and returns it
shiftLeftInPlace(x, numBits) ==
  CASE Evaluated(x) ->
       LET n == numBits % 64
       IN  IF n = 0 THEN x
           ELSE IF n < 32
           THEN [fromBits(NumOf(Shl(x.low_, n)),
                          NumOf(BitOr(Shl(x.high_, n), Shr(x.low_, 32 - n))))
                   EXCEPT !.id = x.id]
           ELSE [fromBits(NumOf(0), NumOf(Shl(x.low_, n - 32)))
                   EXCEPT !.id = x.id]

shiftLeft(x, numBits) ==
  CASE Evaluated(x) ->
       LET n == numBits % 64
       IN  IF n = 0 THEN x
           ELSE IF n < 32
           THEN fromBits(NumOf(Shl(x.low_, n)),
                         NumOf(BitOr(Shl(x.high_, n), Shr(x.low_, 32 - n))))
           ELSE fromBits(NumOf(0), NumOf(Shl(x.low_, n - 32)))

shiftRight(x, numBits) ==
  CASE Evaluated(x) ->
       LET n == numBits % 64
       IN  IF n = 0 THEN x
           ELSE IF n < 32
           THEN fromBits(NumOf(BitOr(Shr(x.low_, n), Shl(x.high_, 32 - n))),
                         NumOf(Sar(x.high_, n)))
           ELSE fromBits(NumOf(Sar(x.high_, n - 32)),
                         NumOf(IF x.high_ >= 0 THEN 0 ELSE -1))

shiftRightUnsigned(x, numBits) ==
  CASE Evaluated(x) ->
       LET n == numBits % 64
       IN  IF n = 0 THEN x
           ELSE IF n < 32
           THEN fromBits(NumOf(BitOr(Shr(x.low_, n), Shl(x.high_, 32 - n))),
                         NumOf(Shr(x.high_, n)))
           ELSE IF n = 32 THEN fromBits(NumOf(x.high_), NumOf(0))
           ELSE fromBits(NumOf(Shr(x.high_, n - 32)), NumOf(0))

\* a call that throws returns [err |-> message] in place of a value
Error(msg) == [err |-> msg]
Ret(v) == [ret |-> v]
IsError(r) == "err" \in DOMAIN r

\* a limb step that drops the carry into the next limb
LimbStepCarryLost(c, a, b) ==
  LET hi == a * (b \div 256)
      t == c + a * (b % 256) + (hi % 256) * 256
  IN  <<0, t % TWO_PWR_16_DBL_>>

\* c + a * b for 16-bit limbs a and b and a carry c below 2^17, a number
\* below 2^32, as <<(c + a * b) >>> 16, (c + a * b) & 0xFFFF>>.  The product
\* is taken in two parts, a * (b & 0xFF) and a * (b >>> 8), each below 2^24.
LimbStep(c, a, b) ==
  LET hi == a * (b \div 256)
      t == c + a * (b % 256) + (hi % 256) * 256
  IN  <<((t \div TWO_PWR_16_DBL_) + (hi \div 256)) % TWO_PWR_16_DBL_,
        t % TWO_PWR_16_DBL_>>

RECURSIVE multiply(_, _)
multiply(x, other) ==
  IF isZero(x) THEN ZERO
  ELSE IF isZero(other) THEN ZERO
  ELSE IF equals(x, MIN_VALUE)
  THEN (IF isOdd(other) THEN MIN_VALUE ELSE ZERO)
  ELSE IF equals(other, MIN_VALUE)
  THEN (IF isOdd(x) THEN MIN_VALUE ELSE ZERO)
  ELSE IF isNegative(x)
  THEN (IF isNegative(other)
        THEN multiply(negate(x), negate(other))
        ELSE negate(multiply(negate(x), other)))
  ELSE IF isNegative(other) THEN negate(multiply(x, negate(other)))
  ELSE IF lessThan(x, TWO_PWR_24_) /\ lessThan(other, TWO_PWR_24_)
  THEN fromNumber(NumNat(NRound53(NMul(toNumber(x).mag, toNumber(other).mag))))
  ELSE
    LET a48 == High16(x.high_)
        a32 == Low16(x.high_)
        a16 == High16(x.low_)
        a00 == Low16(x.low_)
        b48 == High16(other.high_)
        b32 == Low16(other.high_)
        b16 == High16(other.low_)
        b00 == Low16(other.low_)
        \* c00 += a00 * b00; c16 += c00 >>> 16; c00 &= 0xFFFF
        s1 == LimbStep(0, a00, b00)
        c00 == s1[2]
        \* c16 += a16 * b00; c32 += c16 >>> 16; c16 &= 0xFFFF
        s2 == LimbStep(s1[1], a16, b00)
        \* c16 += a00 * b16; c32 += c16 >>> 16; c16 &= 0xFFFF
        s3 == LimbStep(s2[2], a00, b16)
        c16 == s3[2]
        \* c32 += a32 * b00; c48 += c32 >>> 16; c32 &= 0xFFFF
        s4 == LimbStep(s2[1] + s3[1], a32, b00)
        \* c32 += a16 * b16; c48 += c32 >>> 16; c32 &= 0xFFFF
        s5 == LimbStep(s4[2], a16, b16)
        \* c32 += a00 * b32; c48 += c32 >>> 16; c32 &= 0xFFFF
        s6 == LimbStep(s5[2], a00, b32)
        c32 == s6[2]
        \* c48 += a48 * b00 + a32 * b16 + a16 * b32 + a00 * b48; c48 &= 0xFFFF
        c48 == (s4[1] + s5[1] + s6[1]
                  + LimbStep(0, a48, b00)[2] + LimbStep(0, a32, b16)[2]
                  + LimbStep(0, a16, b32)[2] + LimbStep(0, a00, b48)[2])
                 % TWO_PWR_16_DBL_
    IN  fromBits(NumOf(Join16(c16, c00)), NumOf(Join16(c48, c32)))

(***************************************************************************)
(* div: the floating-point estimate of rem / other and its correction.     *)
(***************************************************************************)

\* the double nearest to a / b, floored, from the exact quotient q and
\* remainder r of the division; s is the number of bits q has above 53
FloorRounded(q, r, b, s) ==
  IF s < 0
  THEN (IF NLeq(NShl(NSub(b, r), 1 - s), b) THEN NAdd(q, <<1>>) ELSE q)
  ELSE With(NShr(q, s), LAMBDA m :
       With(IF s = 0 THEN NCmp(NAdd(r, r), b)
            ELSE With(NCmp(NLowBits(q, s), NShl(<<1>>, s - 1)), LAMBDA h :
                   IF h # 0 THEN h ELSE IF r = <<>> THEN 0 ELSE 1),
            LAMBDA c :
         NShl(IF c > 0 \/ (c = 0 /\ NIsOdd(m)) THEN NAdd(m, <<1>>) ELSE m, s)))

\* Math.floor(a / b) for doubles a >= b > 0 holding natural numbers: the
\* quotient is rounded to a double before the floor is taken
FloorOfQuotient(a, b) ==
  With(NDivMod(a, b), LAMBDA qr :
    FloorRounded(qr[1], qr[2], b, NBitLen(qr[1]) - SignificandBits))

NMax(a, b) == IF NLess(a, b) THEN b ELSE a

\* Math.max(1, Math.floor(rem.toNumber() / other.toNumber()))
DivApprox(rem, other) ==
  CASE Evaluated(rem) /\ Evaluated(other) ->
       NMax(<<1>>, FloorOfQuotient(toNumber(rem).mag, toNumber(other).mag))

\* log2 = Math.ceil(Math.log(approx) / Math.LN2): the values it can take.
\* Math.log gives an approximation of the logarithm that the language leaves
\* to the implementation; the quotient computed in doubles is taken to lie
\* within four half units in the last place of the binary logarithm of
\* approx, one unit for Math.log and a half each for Math.LN2 and the
\* division.  With 2^(k-1) < approx <= 2^k the exact ceiling is k; the quotient
\* can come out above k when approx is within k * 2^k / 2^51 below 2^k (or is
\* 2^k), which gives k + 1, and no higher than k - 1 when approx is that near
\* above 2^(k-1), which gives k - 1.  Math.log(1) is 0.
DivLog2(approx) ==
  With(NBitLen(NSub(approx, <<1>>)), LAMBDA k :
    {k}
      \cup (IF k >= 1
               /\ NLeq(NShl(NSub(NShl(<<1>>, k), approx), SignificandBits - 2),
                       NMulDigit(NShl(<<1>>, k), k))
            THEN {k + 1} ELSE {})
      \cup (IF k >= 2
               /\ NLeq(NShl(NSub(approx, NShl(<<1>>, k - 1)),
                            SignificandBits - 2),
                       NMulDigit(NShl(<<1>>, k - 1), k - 1))
            THEN {k - 1} ELSE {}))

\* delta = (log2 <= 48) ? 1 : Math.pow(2, log2 - 48)
DivDelta(log2) == IF log2 <= 48 THEN <<1>> ELSE NShl(<<1>>, log2 - 48)

\* approx - delta for numbers approx (signed) and delta (natural)
NumMinus(approx, delta) ==
  IF approx.neg THEN [approx EXCEPT !.mag = NRound53(NAdd(approx.mag, delta))]
  ELSE IF NLess(approx.mag, delta)
  THEN [approx EXCEPT !.neg = TRUE, !.mag = NSub(delta, approx.mag)]
  ELSE [approx EXCEPT !.mag = NSub(approx.mag, delta)]

\* an inner loop that takes the first estimate as it is
RECURSIVE DivCorrectNever(_, _, _, _)
DivCorrectNever(approx, delta, rem, other) ==
  With(fromNumber(approx), LAMBDA approxRes :
    <<approxRes, multiply(approxRes, other)>>)

\* the inner loop: lowers approx by delta while approx * other is negative
\* or above rem; gives <<approxRes, approxRem>>
RECURSIVE DivCorrect(_, _, _, _)
DivCorrect(approx, delta, rem, other) ==
  With(fromNumber(approx), LAMBDA approxRes :
  With(multiply(approxRes, other), LAMBDA approxRem :
    IF isNegative(approxRem) \/ greaterThan(approxRem, rem)
    THEN DivCorrect(NumMinus(approx, delta), delta, rem, other)
    ELSE <<approxRes, approxRem>>))

\* one iteration of the outer loop of div, taken when rem >= other, with
\* log2 one of the values of DivLog2 for its approx: what the iteration
\* leaves in approxRes (after a zero is replaced by ONE), approxRem, res and
\* rem; c is what the inner loop leaves: <<approxRes, approxRem>>
DivStep(res, rem, other, log2) ==
  With(DivApprox(rem, other), LAMBDA approx :
  With(DivCorrect(NumNat(approx), DivDelta(log2), rem, other), LAMBDA c :
  With(IF isZero(c[1]) THEN ONE ELSE c[1], LAMBDA approxRes :
    [approxRes |-> approxRes, approxRem |-> c[2],
     res |-> add(res, approxRes), rem |-> subtract(rem, c[2])])))

\* the outer loop of div, for rem >= 0 and other > 0: the values it can
\* return, one for each way the iterations can take their log2
RECURSIVE DivLoop(_, _, _)
DivLoop(res, rem, other) ==
  CASE Evaluated(res) /\ Evaluated(rem) ->
       IF greaterThanOrEqual(rem, other)
       THEN UNION {DivLoop(s.res, s.rem, other) :
                     s \in {DivStep(res, rem, other, log2) :
                              log2 \in DivLog2(DivApprox(rem, other))}}
       ELSE {res}

\* what the loop returns: the quotient is the same whichever values log2 took
DivLoopResult(x, other) ==
  With(DivLoop(ZERO, x, other), LAMBDA results :
    CHOOSE res \in results : results = {res})

\* the recursive calls all pass a divisor that is not zero, so only the
\* outermost call can throw
RECURSIVE div(_, _)

\* a div that forgets to negate the quotient of a positive dividend and a
\* negative divisor
DivNonZeroSignLost(x, other) ==
  IF equals(x, MIN_VALUE)
  THEN (IF equals(other, ONE) \/ equals(other, NEG_ONE) THEN MIN_VALUE
        ELSE IF equals(other, MIN_VALUE) THEN ONE
        ELSE With(shiftLeft(div(shiftRight(x, 1), other), 1), LAMBDA approx :
               IF equals(approx, ZERO)
               THEN (IF isNegative(other) THEN ONE ELSE NEG_ONE)
               ELSE add(approx,
                        div(subtract(x, multiply(other, approx)), other))))
  ELSE IF equals(other, MIN_VALUE) THEN ZERO
  ELSE IF isNegative(x)
  THEN (IF isNegative(other)
        THEN div(negate(x), negate(other))
        ELSE negate(div(negate(x), other)))
  ELSE IF isNegative(other) THEN div(x, negate(other))
  ELSE DivLoopResult(x, other)

\* div after its two zero checks; for MIN_VALUE, approx is
\* this.shiftRight(1).div(other).shiftLeft(1) and the result
\* approx.add(this.subtract(other.multiply(approx)).div(other))
DivNonZero(x, other) ==
  IF equals(x, MIN_VALUE)
  THEN (IF equals(other, ONE) \/ equals(other, NEG_ONE) THEN MIN_VALUE
        ELSE IF equals(other, MIN_VALUE) THEN ONE
        ELSE With(shiftLeft(div(shiftRight(x, 1), other), 1), LAMBDA approx :
               IF equals(approx, ZERO)
               THEN (IF isNegative(other) THEN ONE ELSE NEG_ONE)
               ELSE add(approx,
                        div(subtract(x, multiply(other, approx)), other))))
  ELSE IF equals(other, MIN_VALUE) THEN ZERO
  ELSE IF isNegative(x)
  THEN (IF isNegative(other)
        THEN div(negate(x), negate(other))
        ELSE negate(div(negate(x), other)))
  ELSE IF isNegative(other) THEN negate(div(x, negate(other)))
  ELSE DivLoopResult(x, other)

\* the zero checks taken in the other order: a zero dividend gives ZERO before
\* the divisor is looked at
divDividendFirst(x, other) ==
  IF isZero(x) THEN ZERO
  ELSE IF isZero(other) THEN Error("division by zero")
  ELSE DivNonZero(x, other)

div(x, other) ==
  IF isZero(other) THEN Error("division by zero")
  ELSE IF isZero(x) THEN ZERO
  ELSE DivNonZero(x, other)

\* this.subtract(this.div(other).multiply(other)); a throw of div ends the call
modulo(x, other) ==
  With(div(x, other), LAMBDA q :
    IF IsError(q) THEN q ELSE subtract(x, multiply(q, other)))

(***************************************************************************)
(* Strings are sequences of one-character strings.                         *)
(***************************************************************************)
DigitChars ==
  <<"0", "1", "2", "3", "4", "5", "6", "7", "8", "9", "a", "b", "c", "d", "e",
    "f", "g", "h", "i", "j", "k", "l", "m", "n", "o", "p", "q", "r", "s", "t",
    "u", "v", "w", "x", "y", "z">>

\* the digit characters parseInt reads besides those of DigitChars
UpperDigitChars ==
  <<"0", "1", "2", "3", "4", "5", "6", "7", "8", "9", "A", "B", "C", "D", "E",
    "F", "G", "H", "I", "J", "K", "L", "M", "N", "O", "P", "Q", "R", "S", "T",
    "U", "V", "W", "X", "Y", "Z">>

\* the value of a digit character, in either case, -1 for any other character
DigitValue(c) ==
  IF \E i \in 1..Len(DigitChars) : DigitChars[i] = c
  THEN (CHOOSE i \in 1..Len(DigitChars) : DigitChars[i] = c) - 1
  ELSE IF \E i \in 1..Len(UpperDigitChars) : UpperDigitChars[i] = c
  THEN (CHOOSE i \in 1..Len(UpperDigitChars) : UpperDigitChars[i] = c) - 1
  ELSE -1

\* a mod d for a digit d > 0
NModDigit(a, d) == NToInt(NDivMod(a, <<d>>)[2])

\* the digits of the natural number a in the radix, none for zero
RECURSIVE NatDigits(_, _)
NatDigits(a, radix) ==
  CASE Evaluated(a) ->
       IF a = <<>> THEN <<>>
       ELSE NatDigits(NDivDigit(a, radix), radix) \o <<DigitChars[NModDigit(a, radix) + 1]>>

\* Number.prototype.toString(radix) of the 32-bit integer n
IntToString(n, radix) ==
  IF n = 0 THEN <<"0">>
  ELSE (IF n < 0 THEN <<"-">> ELSE <<>>) \o NatDigits(NumOf(n).mag, radix)

\* the longest prefix of s from position i made of digits of the radix:
\* <<value, number of digits>>
RECURSIVE ParseDigits(_, _, _, _)
ParseDigits(s, radix, i, acc) ==
  CASE Evaluated(acc) ->
       IF i > Len(s) \/ DigitValue(s[i]) < 0 \/ DigitValue(s[i]) >= radix
       THEN acc
       ELSE ParseDigits(s, radix, i + 1,
                        <<NAdd(NMulDigit(acc[1], radix), NFromInt(DigitValue(s[i]))),
                          acc[2] + 1>>)

\* the first position from i on that holds no white space, the white space
\* parseInt skips at the start of its string: the tab, the vertical tab
\* (U+000B), the form feed, the space, the no-break space (U+00A0), the
\* byte order mark (U+FEFF), the ogham space mark (U+1680) and the line
\* ends; the spaces U+2000 to U+200A, U+202F, U+205F and U+3000 and the line
\* ends U+2028 and U+2029 are not characters a string of this module can hold
RECURSIVE SkipWhiteSpace(_, _)
SkipWhiteSpace(s, i) ==
  IF i <= Len(s)
       /\ s[i] \in {"\t", "", "\f", " ", " ", "﻿", " ",
                   "\n", "\r"}
  THEN SkipWhiteSpace(s, i + 1) ELSE i

\* where the digits start: after one "+" or "-" at position i and then,
\* in radix 16, after "0x" or "0X"
DigitsStart(s, radix, i) ==
  LET j == IF i <= Len(s) /\ s[i] \in {"+", "-"} THEN i + 1 ELSE i
  IN  IF radix = 16 /\ j + 1 <= Len(s) /\ s[j] = "0" /\ s[j + 1] \in {"x", "X"}
      THEN j + 2 ELSE j

\* parseInt(s, radix) for a radix in 2..36: leading white space is skipped,
\* a sign is taken, a "0x" or "0X" prefix is skipped in radix 16, the digits
\* of the radix are read up to the first other character, and no digit at
\* all gives NaN.  The value is rounded to a double; -0 is held as 0.
parseInt(s, radix) ==
  With(SkipWhiteSpace(s, 1), LAMBDA i :
  With(ParseDigits(s, radix, DigitsStart(s, radix, i), <<(<<>>), 0>>),
       LAMBDA p :
    IF p[2] = 0 THEN NumNaN
    ELSE [k |-> "int",
          neg |-> i <= Len(s) /\ s[i] = "-" /\ p[1] # <<>>,
          mag |-> NRound53(p[1])]))

\* Math.pow(radix, n) for 2 <= radix <= 36 and n <= 8, which is exact
RECURSIVE MathPow(_, _)
MathPow(radix, n) ==
  IF n = 0 THEN <<1>> ELSE NMulDigit(MathPow(radix, n - 1), radix)

\* an optional radix argument: left out, or the integer v
NoRadix == [given |-> FALSE, v |-> 0]
Radix(v) == [given |-> TRUE, v |-> v]

\* opt_radix || 10
RadixOrDefault(opt_radix) ==
  IF opt_radix.given /\ opt_radix.v # 0 THEN opt_radix.v ELSE 10

Min(a, b) == IF a < b THEN a ELSE b

\* the loop of fromString, i the (1-based) position of the next chunk
RECURSIVE FromStringLoop(_, _, _, _)
FromStringLoop(str, radix, i, result) ==
  CASE Evaluated(result) ->
       IF i > Len(str) THEN result
       ELSE LET size == Min(8, Len(str) - i + 1)
                value == parseInt(SubSeq(str, i, i + size - 1), radix)
                radixToPower == fromNumber(NumNat(MathPow(radix, 8)))
                power == fromNumber(NumNat(MathPow(radix, size)))
            IN  IF size < 8
                THEN FromStringLoop(str, radix, i + 8,
                                    add(multiply(result, power), fromNumber(value)))
                ELSE FromStringLoop(str, radix, i + 8,
                                    add(multiply(result, radixToPower), fromNumber(value)))

RECURSIVE fromString(_, _)
fromString(str, opt_radix) ==
  With(RadixOrDefault(opt_radix), LAMBDA radix :
    IF Len(str) = 0 THEN Error("number format error: empty string")
    ELSE IF radix < 2 \/ 36 < radix THEN Error("radix out of range")
    ELSE IF str[1] = "-"
    THEN With(fromString(Tail(str), Radix(radix)), LAMBDA r :
           IF IsError(r) THEN r ELSE negate(r))
    ELSE IF \E i \in 1..Len(str) : str[i] = "-"
    THEN Error("number format error: interior \"-\" character")
    ELSE FromStringLoop(str, radix, 1, ZERO))

\* while (digits.length < 6) digits = '0' + digits
RECURSIVE PadLeft(_)
PadLeft(digits) == IF Len(digits) < 6 THEN PadLeft(<<"0">> \o digits) ELSE digits

\* the loop of toString, for rem >= 0; digits is
\* rem.subtract(remDiv.multiply(radixToPower)).toInt().toString(radix)
RECURSIVE ToStringLoop(_, _, _, _)
ToStringLoop(rem, radixToPower, radix, result) ==
  With(div(rem, radixToPower), LAMBDA remDiv :
  With(IntToString(toInt(subtract(rem, multiply(remDiv, radixToPower))), radix),
       LAMBDA digits :
    IF isZero(remDiv) THEN digits \o result
    ELSE ToStringLoop(remDiv, radixToPower, radix, PadLeft(digits) \o result)))

\* the values of intval in the iterations of the loop of toString, the most
\* significant chunk first
RECURSIVE ToStringChunks(_, _)
ToStringChunks(rem, radixToPower) ==
  With(div(rem, radixToPower), LAMBDA remDiv :
  With(toInt(subtract(rem, multiply(remDiv, radixToPower))), LAMBDA intval :
    IF isZero(remDiv) THEN <<intval>>
    ELSE ToStringChunks(remDiv, radixToPower) \o <<intval>>))

\* gives [ret |-> the string] or the error thrown; for MIN_VALUE, d is
\* this.div(radixTimestamp) and the last digit comes from
\* d.multiply(radixTimestamp).subtract(this)
RECURSIVE toString(_, _)
toString(x, opt_radix) ==
  With(RadixOrDefault(opt_radix), LAMBDA radix :
    IF radix < 2 \/ 36 < radix THEN Error("radix out of range")
    ELSE IF isZero(x) THEN Ret(<<"0">>)
    ELSE IF isNegative(x)
    THEN (IF equals(x, MIN_VALUE)
          THEN With(fromNumber(NumOf(radix)), LAMBDA radixTimestamp :
               With(div(x, radixTimestamp), LAMBDA d :
                 Ret(toString(d, Radix(radix)).ret
                       \o IntToString(toInt(subtract(multiply(d, radixTimestamp),
                                                     x)),
                                      radix))))
          ELSE Ret(<<"-">> \o toString(negate(x), Radix(radix)).ret))
    ELSE Ret(ToStringLoop(x, fromNumber(NumNat(MathPow(radix, 6))), radix, <<>>)))

toJSON(x) == toString(x, NoRadix).ret

(***************************************************************************)
(* The module as a state machine.  heap holds the instances the module      *)
(* keeps alive, in the order they were built: the six constants and the     *)
(* instances of INT_CACHE_.  An instance is the pair of words at its index; *)
(* the index is its identity.  cache is INT_CACHE_: a function from the     *)
(* cached integers to heap indices.  pc is "idle" between calls and the     *)
(* name of the method after a call, inp holds the arguments of that call    *)
(* and out what it returned: a value, [ret |-> v] for a number, a boolean   *)
(* or a string, or [err |-> message] for a throw.  A value held under       *)
(* identity 0 is an instance the caller owns and the module does not keep.  *)
(***************************************************************************)
Words(v) == [low_ |-> v.low_, high_ |-> v.high_]
Obj(h, i) == [low_ |-> h[i].low_, high_ |-> h[i].high_, id |-> i]
IsValue(r) == "low_" \in DOMAIN r
None == [none |-> TRUE]

\* an object returned under an existing identity is that instance: the heap
\* holds at that index the words the returned object has
Retain(h, r) ==
  IF IsValue(r) /\ r.id # 0 THEN [h EXCEPT ![r.id] = Words(r)] ELSE h

\* a range test that takes 128 in
InCacheRangeInclusive(value) == -128 <= value /\ value <= 128

\* -128 <= value && value < 128
InCacheRange(value) == -128 <= value /\ value < 128

\* fromInt on heap h and cache c: the instance returned and the heap and the
\* cache after the call
fromInt(value, h, c) ==
  IF InCacheRange(value) /\ value \in DOMAIN c
  THEN [obj |-> Obj(h, c[value]), heap |-> h, cache |-> c]
  ELSE With(Timestamp(NumOf(value), NumOf(IF value < 0 THEN -1 ELSE 0)),
            LAMBDA obj :
         IF InCacheRange(value)
         THEN [obj |-> [obj EXCEPT !.id = Len(h) + 1],
               heap |-> Append(h, Words(obj)),
               cache |-> (value :> (Len(h) + 1)) @@ c]
         ELSE [obj |-> obj, heap |-> h, cache |-> c])

\* the state once the module is loaded: ZERO, ONE and NEG_ONE come from
\* fromInt and are cached, MAX_VALUE and MIN_VALUE from fromBits, and
\* TWO_PWR_24_ from fromInt(1 << 24), which is not cached
LoadedHeap ==
  <<Words(ZERO), Words(ONE), Words(NEG_ONE), Words(MAX_VALUE), Words(MIN_VALUE),
    Words(TWO_PWR_24_)>>
LoadedCache == (0 :> ZERO.id) @@ (1 :> ONE.id) @@ (-1 :> NEG_ONE.id)

MaxHeap == 8

\* the arguments the calls are made with
IntInputs == {-129, -128, -1, 0, 5, 127, 128, TWO_PWR_24_DBL_}
NumberInputs ==
  {NumOf(0), NumOf(5), NumOf(-1), NumOf(MaxInt32), NumOf(MinInt32),
   NumNat(TWO_PWR_31_DBL_), NumNat(NAdd(TWO_PWR_32_DBL_, <<5>>)),
   NumNeg(NumNat(NAdd(TWO_PWR_31_DBL_, <<1>>))), NumNaN}
ShiftInputs == {0, 1, 32, 33, 64}

Init ==
  /\ heap = LoadedHeap
  /\ cache = LoadedCache
  /\ pc = "idle"
  /\ inp = None
  /\ out = None

\* what a call of a method that leaves INT_CACHE_ alone does to the state
Enter(method, args, result) ==
  /\ pc' = method
  /\ inp' = args
  /\ out' = result
  /\ heap' = Retain(heap, result)
  /\ UNCHANGED cache

\* the caller lets go of what the call returned
Return ==
  /\ pc # "idle"
  /\ pc' = "idle"
  /\ inp' = None
  /\ out' = None
  /\ UNCHANGED <<heap, cache>>

FromInt ==
  /\ pc = "idle"
  /\ \E value \in IntInputs :
       LET r == fromInt(value, heap, cache)
       IN  /\ Len(r.heap) <= MaxHeap
           /\ pc' = "fromInt"
           /\ inp' = [value |-> value]
           /\ out' = r.obj
           /\ heap' = Retain(r.heap, r.obj)
           /\ cache' = r.cache

FromNumber ==
  /\ pc = "idle"
  /\ \E value \in NumberInputs :
       Enter("fromNumber", [value |-> value], fromNumber(value))

FromBits ==
  /\ pc = "idle"
  /\ \E lowBits \in NumberInputs, highBits \in NumberInputs :
       Enter("fromBits", [lowBits |-> lowBits, highBits |-> highBits],
             fromBits(lowBits, highBits))

\* the calls on the instances the heap holds
Receiver(i) == [x |-> Obj(heap, i)]
Operands(i, j) == [x |-> Obj(heap, i), y |-> Obj(heap, j)]
Shifted(i, n) == [x |-> Obj(heap, i), numBits |-> n]

ToInt ==
  /\ pc = "idle"
  /\ \E i \in DOMAIN heap :
       Enter("toInt", Receiver(i), Ret(toInt(Obj(heap, i))))

ToNumber ==
  /\ pc = "idle"
  /\ \E i \in DOMAIN heap :
       Enter("toNumber", Receiver(i), Ret(toNumber(Obj(heap, i))))

ToJSON ==
  /\ pc = "idle"
  /\ \E i \in DOMAIN heap :
       Enter("toJSON", Receiver(i), Ret(toJSON(Obj(heap, i))))

GetBits ==
  /\ pc = "idle"
  /\ \E i \in DOMAIN heap :
       Enter("getBits", Receiver(i),
             Ret(<<getLowBits(Obj(heap, i)), getHighBits(Obj(heap, i)),
                   getLowBitsUnsigned(Obj(heap, i))>>))

Equals ==
  /\ pc = "idle"
  /\ \E i \in DOMAIN heap, j \in DOMAIN heap :
       Enter("equals", Operands(i, j), Ret(equals(Obj(heap, i), Obj(heap, j))))

Compare ==
  /\ pc = "idle"
  /\ \E i \in DOMAIN heap, j \in DOMAIN heap :
       Enter("compare", Operands(i, j), Ret(compare(Obj(heap, i), Obj(heap, j))))

Negate ==
  /\ pc = "idle"
  /\ \E i \in DOMAIN heap : Enter("negate", Receiver(i), negate(Obj(heap, i)))

Not ==
  /\ pc = "idle"
  /\ \E i \in DOMAIN heap : Enter("not", Receiver(i), not(Obj(heap, i)))

Add ==
  /\ pc = "idle"
  /\ \E i \in DOMAIN heap, j \in DOMAIN heap :
       Enter("add", Operands(i, j), add(Obj(heap, i), Obj(heap, j)))

Subtract ==
  /\ pc = "idle"
  /\ \E i \in DOMAIN heap, j \in DOMAIN heap :
       Enter("subtract", Operands(i, j), subtract(Obj(heap, i), Obj(heap, j)))

Multiply ==
  /\ pc = "idle"
  /\ \E i \in DOMAIN heap, j \in DOMAIN heap :
       Enter("multiply", Operands(i, j), multiply(Obj(heap, i), Obj(heap, j)))

Div ==
  /\ pc = "idle"
  /\ \E i \in DOMAIN heap, j \in DOMAIN heap :
       Enter("div", Operands(i, j), div(Obj(heap, i), Obj(heap, j)))

Modulo ==
  /\ pc = "idle"
  /\ \E i \in DOMAIN heap, j \in DOMAIN heap :
       Enter("modulo", Operands(i, j), modulo(Obj(heap, i), Obj(heap, j)))

And ==
  /\ pc = "idle"
  /\ \E i \in DOMAIN heap, j \in DOMAIN heap :
       Enter("and", Operands(i, j), and(Obj(heap, i), Obj(heap, j)))

Or ==
  /\ pc = "idle"
  /\ \E i \in DOMAIN heap, j \in DOMAIN heap :
       Enter("or", Operands(i, j), or(Obj(heap, i), Obj(heap, j)))

Xor ==
  /\ pc = "idle"
  /\ \E i \in DOMAIN heap, j \in DOMAIN heap :
       Enter("xor", Operands(i, j), xor(Obj(heap, i), Obj(heap, j)))

ShiftLeft ==
  /\ pc = "idle"
  /\ \E i \in DOMAIN heap, n \in ShiftInputs :
       Enter("shiftLeft", Shifted(i, n), shiftLeft(Obj(heap, i), n))

ShiftRight ==
  /\ pc = "idle"
  /\ \E i \in DOMAIN heap, n \in ShiftInputs :
       Enter("shiftRight", Shifted(i, n), shiftRight(Obj(heap, i), n))

ShiftRightUnsigned ==
  /\ pc = "idle"
  /\ \E i \in DOMAIN heap, n \in ShiftInputs :
       Enter("shiftRightUnsigned", Shifted(i, n),
             shiftRightUnsigned(Obj(heap, i), n))

Next ==
  \/ FromInt \/ FromNumber \/ FromBits
  \/ ToInt \/ ToNumber \/ ToJSON \/ GetBits
  \/ Equals \/ Compare
  \/ Negate \/ Not
  \/ Add \/ Subtract \/ Multiply \/ Div \/ Modulo
  \/ And \/ Or \/ Xor
  \/ ShiftLeft \/ ShiftRight \/ ShiftRightUnsigned
  \/ Return

Spec == Init /\ [][Next]_vars

(***************************************************************************)
(* The claims about the instances the module keeps.                        *)
(***************************************************************************)
IsInt32(n) ==
  /\ n.k = "int"
  /\ \/ NLeq(n.mag, NFromInt(MaxInt32))
     \/ n.neg /\ n.mag = TWO_PWR_31_DBL_
Int32Value(n) ==
  IF n.neg /\ n.mag = TWO_PWR_31_DBL_ THEN MinInt32
  ELSE IF n.neg THEN -NToInt(n.mag) ELSE NToInt(n.mag)
WordInRange(w) == w \in MinInt32..MaxInt32
Normalized(v) == WordInRange(v.low_) /\ WordInRange(v.high_)

\* C8: every instance the module keeps and every value a call returns has
\* its low and its high word inside [-2^31, 2^31 - 1], and fromBits(low, high)
\* with both words in that range returns a value whose getLowBits() is low
\* and whose getHighBits() is high
C8_WordsNormalized ==
  /\ \A i \in DOMAIN heap : Normalized(heap[i])
  /\ IsValue(out) => Normalized(out)
  /\ pc = "fromBits" /\ IsInt32(inp.lowBits) /\ IsInt32(inp.highBits)
       => /\ getLowBits(out) = Int32Value(inp.lowBits)
          /\ getHighBits(out) = Int32Value(inp.highBits)

C8_Witness ==
  /\ pc = "fromBits"
  /\ inp.lowBits = NumOf(MinInt32)
  /\ inp.highBits = NumOf(MaxInt32)
  /\ getLowBits(out) = MinInt32
  /\ getHighBits(out) = MaxInt32

\* every instance the heap holds is still there, with the words it had
HeapKept == \A i \in DOMAIN heap : i \in DOMAIN heap' /\ heap'[i] = heap[i]

\* C9: no call changes the words of an instance that exists: the constants,
\* the cached instances, the receiver and the argument of the call hold after
\* the call the words they held before it, also when the call returns one of
\* them (a shift by 0, negate of MIN_VALUE, a cache hit)
C9_NoMutation == [][HeapKept]_vars

C9_Witness ==
  /\ pc = "shiftLeft"
  /\ inp.numBits = 0
  /\ inp.x.id = MAX_VALUE.id
  /\ out.id = inp.x.id
  /\ heap[out.id] = Words(MAX_VALUE)

\* the cache holds only keys in [-128, 127], and the entry of key k is an
\* instance with low = k and high = -1 if k < 0 else 0
CacheWellFormed ==
  \A k \in DOMAIN cache :
    /\ k \in -128..127
    /\ cache[k] \in DOMAIN heap
    /\ heap[cache[k]] = [low_ |-> k, high_ |-> IF k < 0 THEN -1 ELSE 0]

\* an entry is never replaced or removed
CacheKept == \A k \in DOMAIN cache : k \in DOMAIN cache' /\ cache'[k] = cache[k]

\* a fromInt call on a cached key returns the cached instance, and one with
\* an argument outside [-128, 128) leaves the cache as it is
FromIntCached ==
  pc = "idle" /\ pc' = "fromInt"
    => /\ inp'.value \in DOMAIN cache => out'.id = cache[inp'.value]
       /\ inp'.value < -128 \/ inp'.value >= 128 => cache' = cache

\* C10: after any sequence of fromInt calls the cache holds only keys in
\* [-128, 127], the entry of key k is the value (low = k, high = -1 if k < 0
\* else 0), an entry once present is never replaced or removed, so that a
\* later fromInt(k) returns that same instance, and a call with an argument
\* outside [-128, 128) leaves the cache unchanged
C10_Cache == []CacheWellFormed /\ [][CacheKept /\ FromIntCached]_vars

C10_Witness ==
  /\ pc = "fromInt"
  /\ inp.value = 5
  /\ out.id = cache[5]
  /\ out.id < Len(heap)
  /\ Len(heap) = MaxHeap

(***************************************************************************)
(* The arithmetic as pure functions: the initial states draw a receiver x  *)
(* and an argument y, and each action applies one method to them once.     *)
(***************************************************************************)
ArithValues ==
  {ZERO, ONE, NEG_ONE, MAX_VALUE, MIN_VALUE, TWO_PWR_24_,
   fromBits(NumOf(2), NumOf(0)),
   fromBits(NumOf(3), NumOf(0)),
   fromBits(NumOf(-3), NumOf(-1)),
   fromBits(NumOf(TWO_PWR_24_DBL_ - 1), NumOf(0)),
   fromBits(NumOf(-1), NumOf(0)),
   fromBits(NumOf(0), NumOf(1)),
   fromBits(NumOf(MinInt32), NumOf(0)),
   fromBits(NumOf(-1985229329), NumOf(19088743)),
   fromBits(NumOf(1985229329), NumOf(-19088744)),
   fromBits(NumOf(-1486618624), NumOf(232830643))}

InitArith ==
  /\ heap = LoadedHeap
  /\ cache = LoadedCache
  /\ pc = "args"
  /\ inp \in [x : ArithValues, y : ArithValues]
  /\ out = None

Apply(method, result) ==
  /\ pc' = method
  /\ out' = result
  /\ UNCHANGED <<heap, cache, inp>>

ApplyNegate == pc = "args" /\ Apply("negate", negate(inp.x))
ApplyAdd == pc = "args" /\ Apply("add", add(inp.x, inp.y))
ApplySubtract == pc = "args" /\ Apply("subtract", subtract(inp.x, inp.y))
ApplyMultiply == pc = "args" /\ Apply("multiply", multiply(inp.x, inp.y))
ApplyDiv == pc = "args" /\ Apply("div", div(inp.x, inp.y))
ApplyModulo == pc = "args" /\ Apply("modulo", modulo(inp.x, inp.y))

NextArith ==
  \/ ApplyNegate \/ ApplyAdd \/ ApplySubtract
  \/ ApplyMultiply \/ ApplyDiv \/ ApplyModulo

SpecArith == InitArith /\ [][NextArith]_vars

\* the value as a natural number below 2^64: its two's-complement bits
U64(v) == NAdd(NShl(Uint32Of(v.high_), 32), Uint32Of(v.low_))

\* C2: for every dividend x, zero, MIN_VALUE and negative values included,
\* x.div(ZERO) and x.modulo(ZERO) end in a division-by-zero error and return
\* no value
C2_DivisionByZero ==
  pc \in {"div", "modulo"} /\ isZero(inp.y)
    => IsError(out) /\ out.err = "division by zero" /\ ~IsValue(out)

C2_Witness ==
  /\ pc = "div"
  /\ isZero(inp.x)
  /\ isZero(inp.y)
  /\ IsError(out)

\* C5: x.add(y) is the two's-complement sum (x + y) mod 2^64, and
\* MAX_VALUE.add(ONE) equals MIN_VALUE
C5_AddWraps ==
  pc = "add"
    => /\ U64(out) = NLowBits(NAdd(U64(inp.x), U64(inp.y)), 64)
       /\ equals(inp.x, MAX_VALUE) /\ equals(inp.y, ONE)
            => equals(out, MIN_VALUE)

C5_Witness ==
  /\ pc = "add"
  /\ equals(inp.x, MAX_VALUE)
  /\ equals(inp.y, ONE)
  /\ equals(out, MIN_VALUE)

\* C6: x.negate().negate() equals x, MIN_VALUE.negate() equals MIN_VALUE, and
\* for every other x the sum of x and x.negate() is ZERO
C6_Negate ==
  pc = "negate"
    => /\ equals(negate(out), inp.x)
       /\ equals(inp.x, MIN_VALUE) => equals(out, MIN_VALUE)
       /\ ~equals(inp.x, MIN_VALUE) => isZero(add(inp.x, out))

C6_Witness ==
  /\ pc = "negate"
  /\ equals(inp.x, MAX_VALUE)
  /\ out.low_ = 1
  /\ out.high_ = MinInt32

\* C7: x.multiply(y) is the two's-complement product (x * y) mod 2^64 on
\* every path, and MIN_VALUE times an odd value is MIN_VALUE and MIN_VALUE
\* times an even value is ZERO
C7_MultiplyWraps ==
  pc = "multiply"
    => /\ U64(out) = NLowBits(NMul(U64(inp.x), U64(inp.y)), 64)
       /\ equals(inp.x, MIN_VALUE) \/ equals(inp.y, MIN_VALUE)
            => LET o == IF equals(inp.x, MIN_VALUE) THEN inp.y ELSE inp.x
               IN  equals(out, IF isOdd(o) THEN MIN_VALUE ELSE ZERO)

C7_Witness ==
  /\ pc = "multiply"
  /\ inp.x = fromBits(NumOf(-1985229329), NumOf(19088743))
  /\ inp.y = fromBits(NumOf(-1486618624), NumOf(232830643))
  /\ U64(out) = NLowBits(NMul(U64(inp.x), U64(inp.y)), 64)
  /\ ~isZero(out)

\* the magnitude of the value as a natural number, 2^63 for MIN_VALUE
Mag(v) == IF v.high_ < 0 THEN NSub(TWO_PWR_64_DBL_, U64(v)) ELSE U64(v)

\* the magnitude that q stands for as a quotient of x and y: q itself when x
\* and y have the same sign (2^63 then reads as MIN_VALUE), -q otherwise
QuotientMag(x, y, q) ==
  IF (x.high_ < 0) = (y.high_ < 0) THEN U64(q)
  ELSE NLowBits(NSub(TWO_PWR_64_DBL_, U64(q)), 64)

\* q is x / y truncated toward zero: |q| * |y| <= |x| < (|q| + 1) * |y|
IsTruncatedQuotient(x, y, q) ==
  /\ NLeq(NMul(QuotientMag(x, y, q), Mag(y)), Mag(x))
  /\ NLess(Mag(x), NMul(NAdd(QuotientMag(x, y, q), <<1>>), Mag(y)))

\* C12: for every x and every non-zero y, x.div(y) is the 64-bit signed
\* quotient truncated toward zero, with MIN_VALUE.div(NEG_ONE) = MIN_VALUE,
\* MIN_VALUE.div(MIN_VALUE) = ONE and x.div(MIN_VALUE) = ZERO for every other
\* x, and x.modulo(y) is x minus that quotient times y: zero or of the sign
\* of x, and of a magnitude below that of y
C12_DivTruncates ==
  /\ pc = "div" /\ ~isZero(inp.y)
       => /\ IsValue(out)
          /\ IsTruncatedQuotient(inp.x, inp.y, out)
          /\ equals(inp.x, MIN_VALUE) /\ equals(inp.y, NEG_ONE)
               => equals(out, MIN_VALUE)
          /\ equals(inp.x, MIN_VALUE) /\ equals(inp.y, MIN_VALUE)
               => equals(out, ONE)
          /\ ~equals(inp.x, MIN_VALUE) /\ equals(inp.y, MIN_VALUE)
               => equals(out, ZERO)
  /\ pc = "modulo" /\ ~isZero(inp.y)
       => /\ IsValue(out)
          /\ NLess(Mag(out), Mag(inp.y))
          /\ isZero(out) \/ (out.high_ < 0) = (inp.x.high_ < 0)
          /\ Mag(inp.x)
               = NAdd(NMul(QuotientMag(inp.x, inp.y, div(inp.x, inp.y)),
                           Mag(inp.y)),
                      Mag(out))

\* a negative dividend and a positive divisor that does not divide it: the
\* quotient is rounded toward zero and the remainder is negative
C12_Witness ==
  /\ pc = "modulo"
  /\ inp.x = fromBits(NumOf(-3), NumOf(-1))
  /\ inp.y = fromBits(NumOf(2), NumOf(0))
  /\ equals(out, NEG_ONE)
  /\ equals(div(inp.x, inp.y), NEG_ONE)
  /\ IsTruncatedQuotient(inp.x, inp.y, div(inp.x, inp.y))

(***************************************************************************)
(* The conversions to and from strings as pure functions: the initial      *)
(* states draw a value and a radix, or a string and a radix; a value is    *)
(* written by toString and the string read back by fromString, a string is *)
(* read by fromString.                                                     *)
(***************************************************************************)
MaxTextLen == 3

TextAlphabet == {"-", "1", "z"}
Texts == UNION {[1..n -> TextAlphabet] : n \in 0..MaxTextLen}
RadixInputs ==
  {NoRadix, Radix(0), Radix(1), Radix(-1), Radix(37),
   Radix(2), Radix(10), Radix(16), Radix(36)}
StringValues ==
  {ZERO, ONE, NEG_ONE, MAX_VALUE, MIN_VALUE,
   fromBits(NumOf(35), NumOf(0)),
   fromBits(NumOf(-36), NumOf(-1)),
   fromBits(NumOf(MaxInt32), NumOf(0)),
   fromBits(NumOf(MinInt32), NumOf(0)),
   fromBits(NumOf(-1985229329), NumOf(19088743)),
   fromBits(NumOf(-1486618624), NumOf(232830643))}

InitString ==
  /\ heap = LoadedHeap
  /\ cache = LoadedCache
  /\ pc = "args"
  /\ \/ inp \in [x : StringValues, radix : RadixInputs]
     \/ inp \in [str : Texts, radix : RadixInputs]
  /\ out = None

ToStringOf ==
  /\ pc = "args"
  /\ "x" \in DOMAIN inp
  /\ pc' = "toString"
  /\ out' = toString(inp.x, inp.radix)
  /\ UNCHANGED <<heap, cache, inp>>

\* the string toString returned is read back with the same radix
ReadBack ==
  /\ pc = "toString"
  /\ ~IsError(out)
  /\ pc' = "fromString"
  /\ inp' = [x |-> inp.x, str |-> out.ret, radix |-> inp.radix]
  /\ out' = fromString(out.ret, inp.radix)
  /\ UNCHANGED <<heap, cache>>

FromString ==
  /\ pc = "args"
  /\ "str" \in DOMAIN inp
  /\ pc' = "fromString"
  /\ out' = fromString(inp.str, inp.radix)
  /\ UNCHANGED <<heap, cache, inp>>

NextString == ToStringOf \/ ReadBack \/ FromString

SpecString == InitString /\ [][NextString]_vars

HasInteriorSign(str) == \E i \in 2..Len(str) : str[i] = "-"
RadixGivenOutside(r) == r.given /\ (r.v < 2 \/ 36 < r.v)
RadixGivenInside(r) == r.given /\ 2 <= r.v /\ r.v <= 36

\* C1: for every value x and every radix in {2, 10, 16, 36},
\* fromString(x.toString(radix), radix) equals x
C1_RoundTrip ==
  pc = "fromString" /\ "x" \in DOMAIN inp
    /\ inp.radix \in {Radix(2), Radix(10), Radix(16), Radix(36)}
    => ~IsError(out) /\ equals(out, inp.x)

\* C3: fromString fails for every string with a '-' at a position other
\* than the first, and a single leading '-' negates the parse of the rest
C3_InteriorSign ==
  pc = "fromString"
    => /\ HasInteriorSign(inp.str) => IsError(out)
       /\ Len(inp.str) > 0 /\ inp.str[1] = "-" /\ ~IsError(out)
            => equals(out, negate(fromString(Tail(inp.str), inp.radix)))

\* C4: for every radix given outside [2, 36], fromString(text, radix) and
\* toString(radix) fail and return no value, and for every radix in [2, 36]
\* neither raises a radix error
C4_RadixRange ==
  pc \in {"fromString", "toString"}
    => /\ RadixGivenOutside(inp.radix) => IsError(out)
       /\ RadixGivenInside(inp.radix)
            => ~(IsError(out) /\ out.err = "radix out of range")

\* the numeral of the natural number a in the radix: no sign, no leading zero
StandardNumeral(a, radix) == IF a = <<>> THEN <<"0">> ELSE NatDigits(a, radix)

\* C13: for every non-negative value x and every radix in [2, 36],
\* toString(radix) is the standard numeral of x in that radix: every chunk
\* taken from the low word of the remainder is in [0, radix^6), and the
\* result has no '-' and no leading zero ("0" for ZERO)
C13_StandardNumeral ==
  pc = "toString" /\ ~isNegative(inp.x) /\ RadixGivenInside(inp.radix)
    => /\ ~IsError(out)
       /\ \A i \in 1..Len(ToStringChunks(inp.x,
                          fromNumber(NumNat(MathPow(inp.radix.v, 6))))) :
            With(ToStringChunks(inp.x,
                   fromNumber(NumNat(MathPow(inp.radix.v, 6))))[i],
                 LAMBDA intval :
                   /\ intval >= 0
                   /\ NLess(NFromInt(intval), MathPow(inp.radix.v, 6)))
       /\ \A i \in 1..Len(out.ret) : out.ret[i] # "-"
       /\ out.ret = <<"0">> \/ out.ret[1] # "0"
       /\ out.ret = StandardNumeral(U64(inp.x), inp.radix.v)

(***************************************************************************)
(* div step by step: the initial states draw the dividend x and the        *)
(* divisor y.  DivBegin is the call up to the loop: the zero checks, the    *)
(* special cases of MIN_VALUE and the sign normalisation, which return what *)
(* their own calls of div return, or the entry into the loop with res =     *)
(* ZERO and rem = this.  DivIterate is one iteration of the loop and        *)
(* DivEnd the return of res.  A call, once made, keeps running.             *)
(***************************************************************************)
InitDiv ==
  /\ heap = LoadedHeap
  /\ cache = LoadedCache
  /\ pc = "args"
  /\ inp \in [x : ArithValues, y : ArithValues]
  /\ out = None

DivBegin ==
  /\ pc = "args"
  /\ IF \/ isZero(inp.y) \/ isZero(inp.x)
        \/ equals(inp.x, MIN_VALUE) \/ equals(inp.y, MIN_VALUE)
        \/ isNegative(inp.x) \/ isNegative(inp.y)
     THEN pc' = "done" /\ out' = div(inp.x, inp.y)
     ELSE pc' = "loop" /\ out' = [res |-> ZERO, rem |-> inp.x]
  /\ UNCHANGED <<heap, cache, inp>>

DivIterate ==
  /\ pc = "loop"
  /\ greaterThanOrEqual(out.rem, inp.y)
  /\ pc' = "loop"
  /\ \E log2 \in DivLog2(DivApprox(out.rem, inp.y)) :
       out' = DivStep(out.res, out.rem, inp.y, log2)
  /\ UNCHANGED <<heap, cache, inp>>

DivEnd ==
  /\ pc = "loop"
  /\ ~greaterThanOrEqual(out.rem, inp.y)
  /\ pc' = "done"
  /\ out' = out.res
  /\ UNCHANGED <<heap, cache, inp>>

NextDiv == DivBegin \/ DivIterate \/ DivEnd

\* A step of NextDiv is possible exactly while the call has not returned, and
\* it changes the state: an iteration adds approxRes, which is never zero, to
\* res.  Weak fairness of NextDiv is stated with that condition in the place
\* of ENABLED <<NextDiv>>_vars.
Returned == pc = "done"
SpecDiv ==
  InitDiv /\ [][NextDiv]_vars /\ (<>[]Returned \/ []<><<NextDiv>>_vars)

\* a value that is not negative, as the natural number it is
IsNat64(v) == v.high_ >= 0

\* in the loop rem is not negative and res * divisor + rem is the dividend
DivLoopInvariant ==
  pc = "loop"
    => /\ IsNat64(out.rem) /\ IsNat64(out.res)
       /\ NAdd(NMul(U64(out.res), U64(inp.y)), U64(out.rem)) = U64(inp.x)

\* an iteration subtracts approxRem with 0 < approxRem <= rem, so that rem
\* decreases and stays non-negative, and adds a quotient of at least ONE
DivIterationProgress ==
  pc = "loop" /\ pc' = "loop"
    => /\ IsNat64(out'.approxRem)
       /\ NLess(<<>>, U64(out'.approxRem))
       /\ NLeq(U64(out'.approxRem), U64(out.rem))
       /\ IsNat64(out'.rem)
       /\ NLess(U64(out'.rem), U64(out.rem))
       /\ IsNat64(out'.approxRes)
       /\ NLeq(<<1>>, U64(out'.approxRes))
       /\ U64(out'.res) = NAdd(U64(out.res), U64(out'.approxRes))

\* C11: for every non-negative dividend and every positive divisor div
\* terminates: every iteration of the loop subtracts a product approxRem with
\* 0 < approxRem <= rem, so rem strictly decreases and never becomes
\* negative, the quotient added in an iteration is at least ONE, and
\* res * divisor + rem equals the dividend at the start of every iteration
C11_DivTerminates ==
  /\ []DivLoopInvariant
  /\ [][DivIterationProgress]_vars
  /\ <>Returned

\* the loop has taken an iteration that needed its estimate lowered, and
\* is about to take another one
C11_Witness ==
  /\ pc = "loop"
  /\ equals(inp.x, MAX_VALUE)
  /\ inp.y = fromBits(NumOf(3), NumOf(0))
  /\ "approxRem" \in DOMAIN out
  /\ ~isZero(out.res)
  /\ greaterThanOrEqual(out.rem, inp.y)
====
